---- MODULE Spec2Model ----
(***************************************************************************)
(* A model of the scan package: the Leak record and RedactLeak, the        *)
(* concurrent NoGitScanner.Scan pipeline and the sequential                *)
(* ParentScanner.Scan loop.                                                *)
(*                                                                         *)
(* Text (Go strings) is modelled as a sequence of symbols.  In the         *)
(* RedactLeak development every symbol is one character; in the scanner    *)
(* developments a path, a line or a rule description may be written as a   *)
(* single symbol standing for a run of characters that occurs nowhere      *)
(* else.                                                                   *)
(***************************************************************************)
EXTENDS Integers, Sequences, FiniteSets, TLC

VARIABLES
    \* ---- RedactLeak development
    rPC,        \* "start", "once", "twice": how often RedactLeak has been applied
    rIn,        \* the record handed to RedactLeak (the caller's value)
    rOnce,      \* RedactLeak(rIn)
    rTwice,     \* RedactLeak(RedactLeak(rIn))
    \* ---- NoGitScanner development: the inputs
    tree,       \* what filepath.Walk visits under opts.Path, in walk order
    opts,       \* ngs.opts: Verbose and Redact
    \* ---- NoGitScanner development: the program state
    mainPC,     \* where the caller is: "new", "nil", "built", "range", "drain", "returned"
    ignoreDotGit, \* whether the allowlist has been extended by IgnoreDotGit
    walker,     \* the walking task: "idle", "run", "done"
    walkPos,    \* index in tree of the entry filepath.Walk visits next
    paths,      \* the paths channel (a queue of indices into tree)
    pathsClosed,
    tasks,      \* the matching task of each entry of tree
    leaks,      \* the leaks channel
    leaksClosed,
    agg,        \* the goroutine of g.Wait(); close(leaks): "idle", "waiting", "done"
    gErr,       \* the errgroup's recorded error
    failOrder,  \* history: the errors of the failed tasks, in the order they returned
    report,     \* scannerReport.Leaks
    retErr,     \* the error Scan returns
    stdout,     \* what Leak.Log has printed
    \* ---- ParentScanner development: the inputs
    children,   \* what ioutil.ReadDir(opts.Path) lists, sorted by name
    readDirErr, \* whether ioutil.ReadDir fails
    repoConfigPath, \* whether opts.RepoConfigPath is set (not "")
    \* ---- ParentScanner development: the program state
    pPC,        \* "readdir", "loop", "open", "allow", "config", "scan", "returned"
    pIdx,       \* index in children of the entry of the current iteration
    cfg,        \* ds.BaseScanner.cfg: the configuration in force
    pReport,    \* scannerReport
    pErr,       \* the error Scan returns
    opened,     \* history: the names git.PlainOpen was called on
    loaded,     \* history: the names config.LoadRepoConfig was called on
    scanned     \* history: the name and configuration of every RepoScanner run

redactVars == <<rPC, rIn, rOnce, rTwice>>
scanVars == <<tree, opts, mainPC, ignoreDotGit, walker, walkPos, paths, pathsClosed,
              tasks, leaks, leaksClosed, agg, gErr, failOrder, report, retErr, stdout>>
parentVars == <<children, readDirErr, repoConfigPath, pPC, pIdx, cfg, pReport, pErr,
                opened, loaded, scanned>>
vars == <<redactVars, scanVars, parentVars>>

----------------------------------------------------------------------------
(* Text *)

\* The empty Go string.
Empty == <<>>

\* The literal "REDACTED", character by character.
REDACTED == <<"R", "E", "D", "A", "C", "T", "E", "D">>

\* strings.HasPrefix(s, p)
HasPrefix(s, p) ==
    /\ Len(p) <= Len(s)
    /\ SubSeq(s, 1, Len(p)) = p

\* strings.Contains(s, sub)
Contains(s, sub) ==
    \E i \in 0..(Len(s) - Len(sub)) : SubSeq(s, i + 1, i + Len(sub)) = sub

\* s[n:]
Drop(s, n) == SubSeq(s, n + 1, Len(s))

\* strings.Replace(s, old, new, -1) for a non-empty old: the occurrences are
\* found left to right and do not overlap; the text after an occurrence is
\* searched from its end.
RECURSIVE ReplaceFrom(_, _, _)
ReplaceFrom(s, old, new) ==
    IF Len(s) < Len(old) THEN s
    ELSE IF HasPrefix(s, old) THEN new \o ReplaceFrom(Drop(s, Len(old)), old, new)
    ELSE <<Head(s)>> \o ReplaceFrom(Tail(s), old, new)

\* strings.Replace(s, "", new, -1): an empty old matches at the beginning of
\* the string and after each character.
RECURSIVE Intersperse(_, _)
Intersperse(s, new) ==
    IF s = <<>> THEN new
    ELSE new \o <<Head(s)>> \o Intersperse(Tail(s), new)

\* strings.Replace(s, old, new, -1)
ReplaceAll(s, old, new) ==
    IF old = new THEN s
    ELSE IF old = <<>> THEN Intersperse(s, new)
    ELSE ReplaceFrom(s, old, new)

----------------------------------------------------------------------------
(* Leak *)

\* The zero value of time.Time.
ZeroTime == 0

\* NewLeak(line, offender, lineNumber): every other field is the zero value.
NewLeak(line, offender, lineNumber) ==
    [ Line       |-> line,
      LineNumber |-> lineNumber,
      Offender   |-> offender,
      Commit     |-> Empty,
      Repo       |-> Empty,
      RepoURL    |-> Empty,
      LeakURL    |-> Empty,
      Rule       |-> Empty,
      Message    |-> Empty,
      Author     |-> Empty,
      Email      |-> Empty,
      File       |-> Empty,
      Date       |-> ZeroTime,
      Tags       |-> Empty ]

\* A plausible slip in RedactLeak: the line is redacted but the offender field
\* keeps the secret.
RedactLeakKeepsOffender(leak) ==
    [leak EXCEPT !.Line = ReplaceAll(leak.Line, leak.Offender, REDACTED)]

\* A plausible slip in RedactLeak: only the first occurrence is replaced
\* (strings.Replace with n = 1).
RedactLeakFirstOnly(leak) ==
    [leak EXCEPT
        !.Line = IF leak.Offender # <<>> /\ Contains(leak.Line, leak.Offender)
                 THEN LET i == CHOOSE k \in 0..Len(leak.Line) :
                                 /\ HasPrefix(Drop(leak.Line, k), leak.Offender)
                                 /\ \A j \in 0..(k - 1) :
                                        ~HasPrefix(Drop(leak.Line, j), leak.Offender)
                      IN SubSeq(leak.Line, 1, i) \o REDACTED
                            \o Drop(leak.Line, i + Len(leak.Offender))
                 ELSE leak.Line,
        !.Offender = REDACTED]

\* RedactLeak(leak): leak is passed by value, the result is the changed copy.
RedactLeak(leak) ==
    [leak EXCEPT !.Line = ReplaceAll(leak.Line, leak.Offender, REDACTED),
                 !.Offender = REDACTED]

----------------------------------------------------------------------------
(* The collaborators of NoGitScanner: rules, allowlist, file system.       *)
(* Their answers are inputs; the scanner only asks.                        *)

\* ngs.cfg.Rules. fileScoped is rule.File.String() != "", pathScoped is
\* rule.Path.String() != "". Rule 1 inspects content and has no scope, rule 2
\* inspects content and declares a filename and a path scope, rule 3 matches
\* on the filename alone.
Rules ==
    << [ Description |-> <<"generic key">>, Tags |-> << <<"key">>, <<"aws">> >>,
         fileScoped |-> FALSE, pathScoped |-> FALSE ],
       [ Description |-> <<"pem in env">>, Tags |-> << <<"pem">> >>,
         fileScoped |-> TRUE, pathScoped |-> TRUE ],
       [ Description |-> <<"key file">>, Tags |-> << >>,
         fileScoped |-> TRUE, pathScoped |-> FALSE ] >>

NRules == Len(Rules)

\* The lines files are made of. offender[r] is what Rules[r].Inspect(line)
\* returns (Empty: no match); regexAllowed is cfg.Allowlist.RegexAllowed(line).
LClean   == [ text |-> <<"x">>, regexAllowed |-> FALSE,
              offender |-> <<Empty, Empty, Empty>> ]
LSecret  == [ text |-> <<"k", "=", "s">>, regexAllowed |-> FALSE,
              offender |-> << <<"s">>, Empty, Empty >> ]
LPem     == [ text |-> <<"p", "s">>, regexAllowed |-> FALSE,
              offender |-> << Empty, <<"p", "s">>, Empty >> ]
LBoth    == [ text |-> <<"k", "=", "s", "p", "s">>, regexAllowed |-> FALSE,
              offender |-> << <<"s">>, <<"p", "s">>, Empty >> ]
LAllowed == [ text |-> <<"k", "=", "t">>, regexAllowed |-> TRUE,
              offender |-> << <<"t">>, Empty, Empty >> ]

\* An entry filepath.Walk visits. kind: "regular", "dir" (any entry that is
\* not a regular file) or "error" (the walk function is called with err # nil).
\* For a regular file: dotGit (it lies under a .git directory), fileAllowed
\* and pathAllowed (the configured global allowlist on its base name and its
\* path), openErr (os.Open fails), readable (the lines bufio.Scanner yields
\* before Scan() returns false: fewer than Len(lines) is a read failure), and
\* per rule: leakOnly (HasFileOrPathLeakOnly), ruleFileAllowed and
\* rulePathAllowed (rule.AllowList), fileLeak (HasFileLeak on the base name),
\* pathLeak (HasFilePathLeak).
Entry(kind, path) ==
    [ kind |-> kind, path |-> path, dotGit |-> FALSE, fileAllowed |-> FALSE,
      pathAllowed |-> FALSE, openErr |-> FALSE, readable |-> 0, lines |-> <<>>,
      leakOnly |-> {}, ruleFileAllowed |-> {}, rulePathAllowed |-> {},
      fileLeak |-> {}, pathLeak |-> {} ]

\* opts.Path itself: filepath.Walk calls the walk function on the root first.
RootDir == Entry("dir", <<".">>)

\* The entries a tree is drawn from, in the lexical order filepath.Walk visits
\* them.
Catalog ==
    << \* an unreadable file under .git whose content and name match rules
       [ Entry("regular", <<".git/config">>) EXCEPT
           !.dotGit = TRUE, !.openErr = TRUE, !.lines = <<LSecret>>, !.readable = 1,
           !.leakOnly = {3}, !.fileLeak = {3} ],
       \* a file matched by name, on its first line by both content rules and
       \* on its second by one
       [ Entry("regular", <<"a.env">>) EXCEPT
           !.lines = <<LBoth, LPem>>, !.readable = 2,
           !.leakOnly = {3}, !.fileLeak = {2, 3}, !.pathLeak = {2} ],
       \* a file matched by name that cannot be opened
       [ Entry("regular", <<"b.key">>) EXCEPT
           !.openErr = TRUE, !.lines = <<LSecret>>, !.readable = 1,
           !.leakOnly = {3}, !.fileLeak = {3} ],
       \* a file outside rule 2's scope; its third line is allow-listed content
       [ Entry("regular", <<"c.go">>) EXCEPT
           !.lines = <<LPem, LBoth, LAllowed>>, !.readable = 3,
           !.pathLeak = {2} ],
       \* a directory that cannot be read
       Entry("error", <<"d">>),
       \* a file whose base name is allow-listed globally
       [ Entry("regular", <<"e.lock">>) EXCEPT
           !.fileAllowed = TRUE, !.lines = <<LSecret>>, !.readable = 1,
           !.leakOnly = {3}, !.fileLeak = {3} ],
       \* a file rule 1 allow-lists by path; reading fails after its first line
       [ Entry("regular", <<"f.bin">>) EXCEPT
           !.lines = <<LBoth, LSecret>>, !.readable = 1,
           !.rulePathAllowed = {1}, !.fileLeak = {2}, !.pathLeak = {2} ] >>

\* At most MaxFiles entries of the catalog lie under opts.Path.
MaxFiles == 3

\* The capacities of the two channels. The source makes both with capacity
\* 100; the model scales them down so that a tree of MaxFiles files can fill
\* them.
PathsCap == 2
LeaksCap == 2

Trees ==
    { <<RootDir>> \o SelectSeq(Catalog, LAMBDA e : \E i \in S : Catalog[i] = e) :
        S \in { T \in SUBSET (1..Len(Catalog)) : Cardinality(T) <= MaxFiles } }

\* ngs.opts.Verbose, ngs.opts.Redact
Options == [ Verbose : BOOLEAN, Redact : BOOLEAN ]

----------------------------------------------------------------------------
(* Errors *)

NilErr == [ op |-> "nil", path |-> Empty ]
OpenErr(path) == [ op |-> "open", path |-> path ]
WalkErr(path) == [ op |-> "walk", path |-> path ]

\* A plausible slip in the task group: the last error wins.
RecordLastError(recorded, err) == IF err = NilErr THEN recorded ELSE err

\* errgroup: g.errOnce.Do(func() { g.err = err }) when a task returns err # nil.
RecordError(recorded, err) ==
    IF err # NilErr /\ recorded = NilErr THEN err ELSE recorded

----------------------------------------------------------------------------
(* The matching task *)

\* strings.Join(elems, sep)
RECURSIVE Join(_, _)
Join(elems, sep) ==
    IF elems = <<>> THEN Empty
    ELSE IF Len(elems) = 1 THEN elems[1]
    ELSE elems[1] \o sep \o Join(Tail(elems), sep)

\* The sentinel line number of a record that is not about a line.
defaultLineNumber == -1

PathOffenderPrefix == <<"Filename or path offender: ">>

\* cfg.Allowlist.FileAllowed(filepath.Base(p))
FileAllowed(f) == f.fileAllowed

\* cfg.Allowlist.PathAllowed(p), once IgnoreDotGit has added its pattern
PathAllowed(f) == f.pathAllowed \/ (ignoreDotGit /\ f.dotGit)

\* A plausible slip: the global allowlist is not consulted.
NeverSkipped(f) == FALSE

\* A plausible slip: the group's context is kept and a task that starts after
\* the group has failed returns at once.
SkippedOrCancelled(f) == FileAllowed(f) \/ PathAllowed(f) \/ gErr # NilErr

\* The guard of the early return at the top of the task.
GloballySkipped(f) == FileAllowed(f) \/ PathAllowed(f)

\* rule.HasFileOrPathLeakOnly(p)
HasFileOrPathLeakOnly(r, f) == r \in f.leakOnly

\* The record of a filename/path-only match.
PathOnlyLeak(f, r) ==
    [ NewLeak(Empty, PathOffenderPrefix \o f.path, defaultLineNumber) EXCEPT
        !.File = f.path,
        !.Rule = Rules[r].Description,
        !.Tags = Join(Rules[r].Tags, <<",", " ">>) ]

\* A plausible slip: the scope checks are left out.
AcceptedWithoutScope(f, ln, r) ==
    LET line == f.lines[ln]
    IN  /\ line.offender[r] # Empty
        /\ ~(line.regexAllowed \/ r \in f.ruleFileAllowed \/ r \in f.rulePathAllowed)

\* Whether the body of the rule loop reaches NewLeak for line ln and rule r:
\* none of its four `continue`s is taken.
Accepted(f, ln, r) ==
    LET line == f.lines[ln]
    IN  /\ line.offender[r] # Empty
        /\ ~(line.regexAllowed \/ r \in f.ruleFileAllowed \/ r \in f.rulePathAllowed)
        /\ ~(Rules[r].fileScoped /\ r \notin f.fileLeak)
        /\ ~(Rules[r].pathScoped /\ r \notin f.pathLeak)

\* A plausible slip: lineNumber is incremented after the rule loop, so the
\* records carry the 0-based index.
ZeroBasedLineNumber(ln) == ln - 1

\* lineNumber as the record carries it: the counter is incremented before the
\* rule loop runs, so the first line is line 1.
LineNumberOf(ln) == ln

\* The record of a content match of rule r on line ln.
ContentLeak(f, ln, r) ==
    [ NewLeak(f.lines[ln].text, f.lines[ln].offender[r], defaultLineNumber) EXCEPT
        !.File = f.path,
        !.LineNumber = LineNumberOf(ln),
        !.Rule = Rules[r].Description,
        !.Tags = Join(Rules[r].Tags, <<",", " ">>) ]

\* A plausible slip: the error of os.Open is dropped and the task reads on.
OpenIgnored(f) == NilErr

\* f, err := os.Open(p): the error, or nil.
OpenResult(f) == IF f.openErr THEN OpenErr(f.path) ELSE NilErr

\* A position in the task's code: ph is "start", "rules" (the loop over the
\* rules before the file is opened) or "lines" (the scanner loop); ln is the
\* line counter and ru the rule the inner loop looks at next (NRules + 1: the
\* inner loop is over).
Pos(ph, ln, ru) == [ ph |-> ph, ln |-> ln, ru |-> ru ]

\* What a run of the task ends in: a send on leaks (the task continues at pos
\* once the record is in the channel) or its return.
Send(leak, pos, handle) ==
    [ send |-> TRUE, leak |-> leak, pos |-> pos, err |-> NilErr, handle |-> handle ]
\* A plausible slip: the task returns nil at the end of the line loop and
\* leaves the file open.
ReturnWithoutClose(err, handle) ==
    [ send |-> FALSE, leak |-> NewLeak(Empty, Empty, 0), pos |-> Pos("end", 0, 0),
      err |-> err, handle |-> IF handle = "closed" THEN "open" ELSE handle ]

Return(err, handle) ==
    [ send |-> FALSE, leak |-> NewLeak(Empty, Empty, 0), pos |-> Pos("end", 0, 0),
      err |-> err, handle |-> handle ]

\* The task's code from position p up to its next send or its return. handle
\* is what became of the file handle: "none" (os.Open not called), "failed",
\* "open", "closed".
RECURSIVE RunTask(_, _)
RunTask(f, p) ==
    CASE p.ph = "start" ->
            IF GloballySkipped(f) THEN Return(NilErr, "none")
            ELSE RunTask(f, Pos("rules", 0, 1))
      [] p.ph = "rules" ->
            IF p.ru <= NRules
            THEN IF HasFileOrPathLeakOnly(p.ru, f)
                 THEN Send(PathOnlyLeak(f, p.ru), Pos("rules", 0, p.ru + 1), "none")
                 ELSE RunTask(f, Pos("rules", 0, p.ru + 1))
            ELSE IF OpenResult(f) # NilErr THEN Return(OpenResult(f), "failed")
                 ELSE RunTask(f, Pos("lines", 0, NRules + 1))
      [] p.ph = "lines" ->
            IF p.ru <= NRules
            THEN IF Accepted(f, p.ln, p.ru)
                 THEN Send(ContentLeak(f, p.ln, p.ru), Pos("lines", p.ln, p.ru + 1), "open")
                 ELSE RunTask(f, Pos("lines", p.ln, p.ru + 1))
            ELSE IF p.ln < f.readable THEN RunTask(f, Pos("lines", p.ln + 1, 1))
                 ELSE Return(NilErr, "closed")

\* Leak.Log(redact): the receiver is a copy; what is printed is the record,
\* redacted if asked. The printed form stands for its indented JSON.
Logged(leak, redact) == IF redact THEN RedactLeak(leak) ELSE leak

\* A plausible slip: Log has a pointer receiver, so its redaction is done on
\* the task's record.
AfterLogByReference(leak, redact) == IF redact THEN RedactLeak(leak) ELSE leak

\* The task's record after leak.Log(redact) has returned: Log has a value
\* receiver and RedactLeak a value parameter, so both work on copies.
AfterLog(leak, redact) == leak

\* A task that g.Go has not started yet. late is history: whether the group
\* had already recorded an error when the task was started.
IdleTask == [ st |-> "idle", pos |-> Pos("start", 0, 0), handle |-> "none",
              late |-> FALSE ]

----------------------------------------------------------------------------
(* NoGitScanner: construction and Scan *)

ScanInit ==
    /\ tree \in Trees
    /\ opts \in Options
    /\ mainPC = "new"
    /\ ignoreDotGit = FALSE
    /\ walker = "idle"
    /\ walkPos = 1
    /\ paths = <<>>
    /\ pathsClosed = FALSE
    /\ tasks = [ i \in 1..Len(tree) |-> IdleTask ]
    /\ leaks = <<>>
    /\ leaksClosed = FALSE
    /\ agg = "idle"
    /\ gErr = NilErr
    /\ failOrder = <<>>
    /\ report = <<>>
    /\ retErr = NilErr
    /\ stdout = {}

\* The scanner part of a state of the other developments.
ScanIdle ==
    /\ tree = <<>>
    /\ opts = [ Verbose |-> FALSE, Redact |-> FALSE ]
    /\ mainPC = "idle"
    /\ ignoreDotGit = FALSE
    /\ walker = "idle"
    /\ walkPos = 1
    /\ paths = <<>>
    /\ pathsClosed = FALSE
    /\ tasks = <<>>
    /\ leaks = <<>>
    /\ leaksClosed = FALSE
    /\ agg = "idle"
    /\ gErr = NilErr
    /\ failOrder = <<>>
    /\ report = <<>>
    /\ retErr = NilErr
    /\ stdout = {}

\* cfg.Allowlist.IgnoreDotGit(): on success the allowlist ignores every path
\* under a .git directory.
IgnoreDotGit == ignoreDotGit' = TRUE

\* NewNoGitScanner: returns the scanner, or nil when IgnoreDotGit fails.
NewNoGitScanner ==
    /\ mainPC = "new"
    /\ \/ IgnoreDotGit /\ mainPC' = "built"
       \/ mainPC' = "nil" /\ UNCHANGED ignoreDotGit
    /\ UNCHANGED <<redactVars, parentVars, tree, opts, walker, walkPos, paths, pathsClosed, tasks, leaks,
                   leaksClosed, agg, gErr, failOrder, report, retErr, stdout>>

\* Scan up to its range loop: the group and the channels are made and the
\* walking task is started.
ScanBegin ==
    /\ mainPC = "built"
    /\ mainPC' = "range"
    /\ walker' = "run"
    /\ UNCHANGED <<redactVars, parentVars, tree, opts, ignoreDotGit, walkPos, paths, pathsClosed, tasks, leaks,
                   leaksClosed, agg, gErr, failOrder, report, retErr, stdout>>

\* The walk function on an entry that is not a regular file: nothing is sent.
WalkSkip ==
    /\ walker = "run"
    /\ walkPos <= Len(tree)
    /\ tree[walkPos].kind = "dir"
    /\ walkPos' = walkPos + 1
    /\ UNCHANGED <<redactVars, parentVars, tree, opts, mainPC, ignoreDotGit, walker, paths, pathsClosed, tasks,
                   leaks, leaksClosed, agg, gErr, failOrder, report, retErr, stdout>>

\* A plausible slip: paths is made without a capacity limit, so the walking
\* task never blocks.
WalkSendUnbounded ==
    /\ walker = "run"
    /\ walkPos <= Len(tree)
    /\ tree[walkPos].kind = "regular"
    /\ paths' = Append(paths, walkPos)
    /\ walkPos' = walkPos + 1
    /\ UNCHANGED <<redactVars, parentVars, tree, opts, mainPC, ignoreDotGit, walker, pathsClosed, tasks,
                   leaks, leaksClosed, agg, gErr, failOrder, report, retErr, stdout>>

\* The walk function on a regular file: paths <- path, which blocks while the
\* channel is full.
WalkSend ==
    /\ walker = "run"
    /\ walkPos <= Len(tree)
    /\ tree[walkPos].kind = "regular"
    /\ Len(paths) < PathsCap
    /\ paths' = Append(paths, walkPos)
    /\ walkPos' = walkPos + 1
    /\ UNCHANGED <<redactVars, parentVars, tree, opts, mainPC, ignoreDotGit, walker, pathsClosed, tasks,
                   leaks, leaksClosed, agg, gErr, failOrder, report, retErr, stdout>>

\* A plausible slip: close(paths) is not deferred but follows a successful
\* walk only, so a failed walk leaves paths open.
WalkFailLeavesPathsOpen ==
    /\ walker = "run"
    /\ walkPos <= Len(tree)
    /\ tree[walkPos].kind = "error"
    /\ walker' = "done"
    /\ gErr' = RecordError(gErr, WalkErr(tree[walkPos].path))
    /\ failOrder' = Append(failOrder, WalkErr(tree[walkPos].path))
    /\ UNCHANGED <<redactVars, parentVars, tree, opts, mainPC, ignoreDotGit, walkPos, paths,
                   pathsClosed, tasks, leaks, leaksClosed, agg, report, retErr, stdout>>

\* The walk function is called with an error: it returns it, filepath.Walk
\* stops, the deferred close(paths) runs and the group records the error.
WalkFail ==
    /\ walker = "run"
    /\ walkPos <= Len(tree)
    /\ tree[walkPos].kind = "error"
    /\ walker' = "done"
    /\ pathsClosed' = TRUE
    /\ gErr' = RecordError(gErr, WalkErr(tree[walkPos].path))
    /\ failOrder' = Append(failOrder, WalkErr(tree[walkPos].path))
    /\ UNCHANGED <<redactVars, parentVars, tree, opts, mainPC, ignoreDotGit, walkPos, paths, tasks,
                   leaks, leaksClosed, agg, report, retErr, stdout>>

\* filepath.Walk has visited everything: the task returns nil and the
\* deferred close(paths) runs.
WalkReturn ==
    /\ walker = "run"
    /\ walkPos > Len(tree)
    /\ walker' = "done"
    /\ pathsClosed' = TRUE
    /\ UNCHANGED <<redactVars, parentVars, tree, opts, mainPC, ignoreDotGit, walkPos, paths, tasks,
                   leaks, leaksClosed, agg, gErr, failOrder, report, retErr, stdout>>

\* One iteration of `for path := range paths`: g.Go starts the matching task
\* of the path received.
Spawn ==
    /\ mainPC = "range"
    /\ paths # <<>>
    /\ tasks' = [ tasks EXCEPT ![Head(paths)].st = "run",
                               ![Head(paths)].late = (gErr # NilErr) ]
    /\ paths' = Tail(paths)
    /\ UNCHANGED <<redactVars, parentVars, tree, opts, mainPC, ignoreDotGit, walker, walkPos, pathsClosed,
                   leaks, leaksClosed, agg, gErr, failOrder, report, retErr, stdout>>

\* paths is closed and empty: the range loop ends, and the goroutine of
\* g.Wait(); close(leaks) is started.
RangeDone ==
    /\ mainPC = "range"
    /\ paths = <<>>
    /\ pathsClosed
    /\ mainPC' = "drain"
    /\ agg' = "waiting"
    /\ UNCHANGED <<redactVars, parentVars, tree, opts, ignoreDotGit, walker, walkPos, paths, pathsClosed, tasks,
                   leaks, leaksClosed, gErr, failOrder, report, retErr, stdout>>

\* Matching task i runs to its next leaks <- leak (which blocks while the
\* channel is full) and sends; the record is logged first when opts.Verbose.
TaskSend(i) ==
    /\ tasks[i].st = "run"
    /\ LET r == RunTask(tree[i], tasks[i].pos)
       IN  /\ r.send
           /\ Len(leaks) < LeaksCap
           /\ leaks' = Append(leaks, IF opts.Verbose
                                      THEN AfterLog(r.leak, opts.Redact)
                                      ELSE r.leak)
           /\ stdout' = IF opts.Verbose
                        THEN stdout \cup { Logged(r.leak, opts.Redact) }
                        ELSE stdout
           /\ tasks' = [ tasks EXCEPT ![i].pos = r.pos, ![i].handle = r.handle ]
    /\ UNCHANGED <<redactVars, parentVars, tree, opts, mainPC, ignoreDotGit, walker, walkPos, paths, pathsClosed,
                   leaksClosed, agg, gErr, failOrder, report, retErr>>

\* Matching task i runs to its return; the group records its error.
TaskReturn(i) ==
    /\ tasks[i].st = "run"
    /\ LET r == RunTask(tree[i], tasks[i].pos)
       IN  /\ ~r.send
           /\ tasks' = [ tasks EXCEPT ![i].st = "done", ![i].pos = r.pos,
                                      ![i].handle = r.handle ]
           /\ gErr' = RecordError(gErr, r.err)
           /\ failOrder' = IF r.err # NilErr THEN Append(failOrder, r.err) ELSE failOrder
    /\ UNCHANGED <<redactVars, parentVars, tree, opts, mainPC, ignoreDotGit, walker, walkPos, paths, pathsClosed,
                   leaks, leaksClosed, agg, report, retErr, stdout>>

\* A plausible slip: the closing goroutine waits for the walking task only.
WalkerDone == walker = "done"

\* Every task of the group has returned.
GroupDone == walker = "done" /\ \A i \in DOMAIN tasks : tasks[i].st # "run"

\* The goroutine started after the range loop: g.Wait() returns, close(leaks).
CloseLeaks ==
    /\ agg = "waiting"
    /\ GroupDone
    /\ leaksClosed' = TRUE
    /\ agg' = "done"
    /\ UNCHANGED <<redactVars, parentVars, tree, opts, mainPC, ignoreDotGit, walker, walkPos, paths, pathsClosed,
                   tasks, leaks, gErr, failOrder, report, retErr, stdout>>

\* A plausible slip: g.Wait() and close(leaks) run in the caller, before its
\* receive loop, instead of in a goroutine of their own.
CallerDrainsAfterJoin == mainPC = "drain" /\ leaksClosed

\* The caller is in `for leak := range leaks`: it enters the loop as soon as
\* the closing goroutine is started, without waiting for the group.
CallerDrains == mainPC = "drain"

\* A plausible slip: the record received is put in front of the report.
DrainPrepends ==
    /\ CallerDrains
    /\ leaks # <<>>
    /\ report' = <<Head(leaks)>> \o report
    /\ leaks' = Tail(leaks)
    /\ UNCHANGED <<redactVars, parentVars, tree, opts, mainPC, ignoreDotGit, walker, walkPos, paths, pathsClosed,
                   tasks, leaksClosed, agg, gErr, failOrder, retErr, stdout>>

\* One iteration of `for leak := range leaks`.
Drain ==
    /\ CallerDrains
    /\ leaks # <<>>
    /\ report' = Append(report, Head(leaks))
    /\ leaks' = Tail(leaks)
    /\ UNCHANGED <<redactVars, parentVars, tree, opts, mainPC, ignoreDotGit, walker, walkPos, paths, pathsClosed,
                   tasks, leaksClosed, agg, gErr, failOrder, retErr, stdout>>

\* leaks is closed and empty: return scannerReport, g.Wait().
ScanReturn ==
    /\ CallerDrains
    /\ leaks = <<>>
    /\ leaksClosed
    /\ GroupDone
    /\ retErr' = gErr
    /\ mainPC' = "returned"
    /\ UNCHANGED <<redactVars, parentVars, tree, opts, ignoreDotGit, walker, walkPos, paths, pathsClosed,
                   tasks, leaks, leaksClosed, agg, gErr, failOrder, report, stdout>>

\* A step of the caller, of the closing goroutine, of the walking task or of
\* a matching task.
Next ==
    \/ NewNoGitScanner
    \/ ScanBegin
    \/ Spawn
    \/ RangeDone
    \/ Drain
    \/ ScanReturn
    \/ CloseLeaks
    \/ WalkSkip
    \/ WalkSend
    \/ WalkFail
    \/ WalkReturn
    \/ \E i \in DOMAIN tasks : TaskReturn(i)
    \/ \E i \in DOMAIN tasks : TaskSend(i)

----------------------------------------------------------------------------
(* ParentScanner.Scan *)

\* The configuration the ParentScanner was built with.
BaseCfg == <<"base">>

\* What ioutil.ReadDir lists. isDir is f.IsDir(); open is the outcome of
\* git.PlainOpen on the entry: "ok", "notrepo" (the error whose text is
\* "repository does not exist") or "err" (any other error); baseAllowed is
\* RepoAllowed(name) under the base configuration; load is the outcome of
\* config.LoadRepoConfig, "ok" or "fail", and allows the repository names the
\* allowlist of the loaded configuration allows; commits and leaks are what
\* the RepoScanner's Scan reports, scanErr whether it returns an error.
Child(name, isDir) ==
    [ name |-> name, isDir |-> isDir, open |-> "notrepo", baseAllowed |-> FALSE,
      load |-> "fail", allows |-> {}, commits |-> 0, leaks |-> 0, scanErr |-> FALSE ]

\* The entries the listing is drawn from, in name order.
ChildCatalog ==
    << Child(<<"a.txt">>, FALSE),
       Child(<<"b-docs">>, TRUE),
       [ Child(<<"c-app">>, TRUE) EXCEPT
           !.open = "ok", !.load = "ok", !.allows = { <<"f-lib">> },
           !.commits = 2, !.leaks = 1 ],
       [ Child(<<"d-vendor">>, TRUE) EXCEPT
           !.open = "ok", !.baseAllowed = TRUE, !.load = "ok", !.commits = 3, !.leaks = 1 ],
       [ Child(<<"e-bad">>, TRUE) EXCEPT !.open = "err" ],
       [ Child(<<"f-lib">>, TRUE) EXCEPT
           !.open = "ok", !.load = "fail", !.commits = 1, !.leaks = 2 ],
       [ Child(<<"g-tool">>, TRUE) EXCEPT
           !.open = "ok", !.load = "ok", !.commits = 4, !.leaks = 1, !.scanErr = TRUE ],
       [ Child(<<"h-web">>, TRUE) EXCEPT
           !.open = "ok", !.load = "fail", !.commits = 5, !.leaks = 1 ] >>

\* At most MaxChildren entries of the catalog are listed.
MaxChildren == 4

Listings ==
    { SelectSeq(ChildCatalog, LAMBDA c : \E i \in S : ChildCatalog[i] = c) :
        S \in { T \in SUBSET (1..Len(ChildCatalog)) : Cardinality(T) <= MaxChildren } }

ReadDirErr == [ op |-> "readdir", path |-> <<".">> ]
PlainOpenErr(name) == [ op |-> "plainopen", path |-> name ]
RepoScanErr(name) == [ op |-> "reposcan", path |-> name ]

\* The configuration config.LoadRepoConfig returns for a repository.
OverrideOf(c) == c.name

\* ds.cfg.Allowlist.RepoAllowed(name) under configuration k.
RepoAllowed(k, c) ==
    IF k = BaseCfg THEN c.baseAllowed
    ELSE \E o \in 1..Len(ChildCatalog) :
            /\ OverrideOf(ChildCatalog[o]) = k
            /\ c.name \in ChildCatalog[o].allows

\* What the RepoScanner built from configuration k reports for repository c:
\* its leaks carry the repository name, and their rule tells the configuration
\* that found them. A failing scan still hands back what it had found.
RepoLeaks(c, k) ==
    [ n \in 1..c.leaks |-> [ NewLeak(<<"secret">>, <<"secret">>, n) EXCEPT
                                !.Repo = c.name, !.Rule = k ] ]
RepoReport(c, k) == [ Leaks |-> RepoLeaks(c, k), Commits |-> c.commits ]

\* var scannerReport Report
EmptyReport == [ Leaks |-> <<>>, Commits |-> 0 ]

\* A plausible slip: the commit count of the last repository replaces the sum.
MergeLastCommits(acc, rep) ==
    [ Leaks |-> acc.Leaks \o rep.Leaks, Commits |-> rep.Commits ]

\* scannerReport.Leaks = append(..., repoReport.Leaks...);
\* scannerReport.Commits += repoReport.Commits
Merge(acc, rep) ==
    [ Leaks |-> acc.Leaks \o rep.Leaks, Commits |-> acc.Commits + rep.Commits ]

\* A plausible slip: what the failing scan had found is merged before the
\* error is returned.
ReportWithFailedScan(acc, rep) == Merge(acc, rep)

\* The report returned alongside the error of rs.Scan(): scannerReport as it
\* stands, the failing scan's report is dropped.
ReportOnScanErr(acc, rep) == acc

\* A plausible slip: the error text is compared with another message, so a
\* directory that is no repository is no longer told apart.
NeverNotRepository(c) == FALSE

\* err.Error() == "repository does not exist"
IsNotRepository(c) == c.open = "notrepo"

ParentInit ==
    /\ children \in Listings
    /\ readDirErr \in BOOLEAN
    /\ repoConfigPath \in BOOLEAN
    /\ pPC = "readdir"
    /\ pIdx = 1
    /\ cfg = BaseCfg
    /\ pReport = EmptyReport
    /\ pErr = NilErr
    /\ opened = <<>>
    /\ loaded = <<>>
    /\ scanned = <<>>

\* The ParentScanner part of a state of the other developments.
ParentIdle ==
    /\ children = <<>>
    /\ readDirErr = FALSE
    /\ repoConfigPath = FALSE
    /\ pPC = "idle"
    /\ pIdx = 1
    /\ cfg = BaseCfg
    /\ pReport = EmptyReport
    /\ pErr = NilErr
    /\ opened = <<>>
    /\ loaded = <<>>
    /\ scanned = <<>>

\* ioutil.ReadDir(ds.opts.Path): an error is returned at once.
ParentReadDir ==
    /\ pPC = "readdir"
    /\ IF readDirErr
       THEN pErr' = ReadDirErr /\ pPC' = "returned"
       ELSE pPC' = "loop" /\ UNCHANGED pErr
    /\ UNCHANGED <<redactVars, scanVars, children, readDirErr, repoConfigPath, pIdx, cfg,
                   pReport, opened, loaded, scanned>>

\* The top of the loop body: an entry that is not a directory is skipped.
ParentEntry ==
    /\ pPC = "loop"
    /\ pIdx <= Len(children)
    /\ IF children[pIdx].isDir
       THEN pPC' = "open" /\ UNCHANGED pIdx
       ELSE pIdx' = pIdx + 1 /\ UNCHANGED pPC
    /\ UNCHANGED <<redactVars, scanVars, children, readDirErr, repoConfigPath, cfg,
                   pReport, pErr, opened, loaded, scanned>>

\* git.PlainOpen: "repository does not exist" skips the directory, any other
\* error is returned with the report accumulated so far.
ParentOpen ==
    /\ pPC = "open"
    /\ opened' = Append(opened, children[pIdx].name)
    /\ CASE children[pIdx].open = "ok" ->
                pPC' = "allow" /\ UNCHANGED <<pIdx, pErr>>
         [] children[pIdx].open # "ok" /\ IsNotRepository(children[pIdx]) ->
                pPC' = "loop" /\ pIdx' = pIdx + 1 /\ UNCHANGED pErr
         [] children[pIdx].open # "ok" /\ ~IsNotRepository(children[pIdx]) ->
                pPC' = "returned" /\ pErr' = PlainOpenErr(children[pIdx].name)
                    /\ UNCHANGED pIdx
    /\ UNCHANGED <<redactVars, scanVars, children, readDirErr, repoConfigPath, cfg,
                   pReport, loaded, scanned>>

\* ds.cfg.Allowlist.RepoAllowed(f.Name()), asked of the configuration in force.
ParentAllow ==
    /\ pPC = "allow"
    /\ IF RepoAllowed(cfg, children[pIdx])
       THEN pPC' = "loop" /\ pIdx' = pIdx + 1
       ELSE pPC' = (IF repoConfigPath THEN "config" ELSE "scan") /\ UNCHANGED pIdx
    /\ UNCHANGED <<redactVars, scanVars, children, readDirErr, repoConfigPath, cfg,
                   pReport, pErr, opened, loaded, scanned>>

\* A plausible slip: a failed load falls back to the base configuration.
ParentLoadConfigFallsBack ==
    /\ pPC = "config"
    /\ loaded' = Append(loaded, children[pIdx].name)
    /\ cfg' = IF children[pIdx].load = "ok" THEN OverrideOf(children[pIdx]) ELSE BaseCfg
    /\ pPC' = "scan"
    /\ UNCHANGED <<redactVars, scanVars, children, readDirErr, repoConfigPath, pIdx,
                   pReport, pErr, opened, scanned>>

\* config.LoadRepoConfig: on success the loaded configuration replaces
\* ds.BaseScanner.cfg, on failure a warning is logged.
ParentLoadConfig ==
    /\ pPC = "config"
    /\ loaded' = Append(loaded, children[pIdx].name)
    /\ cfg' = IF children[pIdx].load = "ok" THEN OverrideOf(children[pIdx]) ELSE cfg
    /\ pPC' = "scan"
    /\ UNCHANGED <<redactVars, scanVars, children, readDirErr, repoConfigPath, pIdx,
                   pReport, pErr, opened, scanned>>

\* NewRepoScanner(ds.BaseScanner, repo), rs.Scan(): an error is returned with
\* the report accumulated so far, otherwise the repository's report is merged.
ParentScanRepo ==
    /\ pPC = "scan"
    /\ scanned' = Append(scanned, [ name |-> children[pIdx].name, cfg |-> cfg ])
    /\ IF children[pIdx].scanErr
       THEN /\ pErr' = RepoScanErr(children[pIdx].name)
            /\ pPC' = "returned"
            /\ pReport' = ReportOnScanErr(pReport, RepoReport(children[pIdx], cfg))
            /\ UNCHANGED pIdx
       ELSE /\ pReport' = Merge(pReport, RepoReport(children[pIdx], cfg))
            /\ pIdx' = pIdx + 1
            /\ pPC' = "loop"
            /\ UNCHANGED pErr
    /\ UNCHANGED <<redactVars, scanVars, children, readDirErr, repoConfigPath, cfg,
                   opened, loaded>>

\* The listing is exhausted: return scannerReport, nil.
ParentReturn ==
    /\ pPC = "loop"
    /\ pIdx > Len(children)
    /\ pPC' = "returned"
    /\ UNCHANGED <<redactVars, scanVars, children, readDirErr, repoConfigPath, pIdx, cfg,
                   pReport, pErr, opened, loaded, scanned>>

ParentNext ==
    \/ ParentReadDir
    \/ ParentEntry
    \/ ParentOpen
    \/ ParentAllow
    \/ ParentLoadConfig
    \/ ParentScanRepo
    \/ ParentReturn

----------------------------------------------------------------------------
(* RedactLeak on bounded inputs *)

\* Bounds of the inputs: a line is made of at most MaxLinePieces pieces and an
\* offender of at most MaxOffenderPieces pieces.
MaxLinePieces == 3
MaxOffenderPieces == 2

\* A piece is one character or the marker literal, so that a bounded line can
\* already contain the marker.
Pieces == { <<"a">>, <<"R">>, <<"D">>, REDACTED }

RECURSIVE TextsUpTo(_)
TextsUpTo(n) ==
    IF n = 0 THEN { <<>> }
    ELSE LET shorter == TextsUpTo(n - 1)
         IN shorter \cup { p \o t : p \in Pieces, t \in shorter }

RedactInit ==
    /\ rPC = "start"
    /\ \E line \in TextsUpTo(MaxLinePieces), offender \in TextsUpTo(MaxOffenderPieces) :
           rIn = NewLeak(line, offender, 1)
    /\ rOnce = rIn
    /\ rTwice = rIn

RedactIdle ==
    /\ rPC = "idle"
    /\ rIn = NewLeak(Empty, Empty, 0)
    /\ rOnce = rIn
    /\ rTwice = rIn

\* The first call: RedactLeak(leak).
RedactOnce ==
    /\ rPC = "start"
    /\ rOnce' = RedactLeak(rIn)
    /\ rPC' = "once"
    /\ UNCHANGED <<rIn, rTwice, scanVars, parentVars>>

\* A second call on the result of the first.
RedactTwice ==
    /\ rPC = "once"
    /\ rTwice' = RedactLeak(rOnce)
    /\ rPC' = "twice"
    /\ UNCHANGED <<rIn, rOnce, scanVars, parentVars>>

RedactNext == RedactOnce \/ RedactTwice

----------------------------------------------------------------------------
(* The specifications *)

Init == ScanInit /\ RedactIdle /\ ParentIdle

Spec == Init /\ [][Next]_vars

InitParent == ParentInit /\ ScanIdle /\ RedactIdle

SpecParent == InitParent /\ [][ParentNext]_vars

InitRedact == RedactInit /\ ScanIdle /\ ParentIdle

SpecRedact == InitRedact /\ [][RedactNext]_vars

\* The Go scheduler runs every goroutine that can take a step, so a step of
\* the scan that stays possible is eventually taken.
FairSpec == Spec /\ WF_vars(Next)

----------------------------------------------------------------------------
(* Properties of NoGitScanner.Scan, checked under Spec *)

\* The entries of the tree that are regular files.
RegularFiles == { i \in 1..Len(tree) : tree[i].kind = "regular" }

\* The regular files the walk reaches: those before the first entry it fails on.
Discovered ==
    { i \in RegularFiles : \A j \in 1..(i - 1) : tree[j].kind # "error" }

\* The walk fails on some entry.
WalkFails == \E j \in 1..Len(tree) : tree[j].kind = "error"

\* The file is allow-listed globally: by its base name, by its path, or, once
\* the scanner is constructed, because it lies under a .git directory.
AllowListed(f) == f.fileAllowed \/ f.pathAllowed \/ f.dotGit

\* The file can be opened and read to its end.
Readable(f) == ~f.openErr /\ f.readable = Len(f.lines)

\* Some rule matches the file's name or one of its lines.
HasRuleMatches(f) ==
    \/ f.leakOnly # {}
    \/ \E ln \in 1..Len(f.lines), r \in 1..NRules : f.lines[ln].offender[r] # Empty

\* The record the claims expect for a filename/path-only match of rule r.
PathRecord(f, r) ==
    [ Line |-> Empty, LineNumber |-> defaultLineNumber,
      Offender |-> PathOffenderPrefix \o f.path,
      Commit |-> Empty, Repo |-> Empty, RepoURL |-> Empty, LeakURL |-> Empty,
      Rule |-> Rules[r].Description, Message |-> Empty, Author |-> Empty,
      Email |-> Empty, File |-> f.path, Date |-> ZeroTime,
      Tags |-> Join(Rules[r].Tags, <<",", " ">>) ]

\* The record the claims expect for a content match of rule r on line ln.
LineRecord(f, ln, r) ==
    [ Line |-> f.lines[ln].text, LineNumber |-> ln,
      Offender |-> f.lines[ln].offender[r],
      Commit |-> Empty, Repo |-> Empty, RepoURL |-> Empty, LeakURL |-> Empty,
      Rule |-> Rules[r].Description, Message |-> Empty, Author |-> Empty,
      Email |-> Empty, File |-> f.path, Date |-> ZeroTime,
      Tags |-> Join(Rules[r].Tags, <<",", " ">>) ]

\* The (line, rule) pairs of a file whose match is to be reported: the rule's
\* inspection returns an offender, the line is not allow-listed content, the
\* rule's own allowlist does not match the file, and the file satisfies every
\* scope the rule declares.
ReportablePairs(f) ==
    { <<ln, r>> \in (1..Len(f.lines)) \X (1..NRules) :
        /\ f.lines[ln].offender[r] # Empty
        /\ ~f.lines[ln].regexAllowed
        /\ r \notin f.ruleFileAllowed
        /\ r \notin f.rulePathAllowed
        /\ (Rules[r].fileScoped => r \in f.fileLeak)
        /\ (Rules[r].pathScoped => r \in f.pathLeak) }

\* How many records equal to rec file f is to contribute.
ExpectedCount(f, rec) ==
    IF AllowListed(f) THEN 0
    ELSE Cardinality({ r \in f.leakOnly : PathRecord(f, r) = rec })
         + Cardinality({ lr \in ReportablePairs(f) : LineRecord(f, lr[1], lr[2]) = rec })

\* The records file f is to contribute.
ExpectedRecords(f) ==
    IF AllowListed(f) THEN {}
    ELSE { PathRecord(f, r) : r \in f.leakOnly }
         \cup { LineRecord(f, lr[1], lr[2]) : lr \in ReportablePairs(f) }

\* How often rec occurs in a sequence of records.
Count(seq, rec) == Cardinality({ k \in 1..Len(seq) : seq[k] = rec })

\* The records of a sequence.
Records(seq) == { seq[k] : k \in 1..Len(seq) }

\* The sum of ExpectedCount over a set of files.
RECURSIVE TotalExpected(_, _)
TotalExpected(files, rec) ==
    IF files = {} THEN 0
    ELSE LET i == CHOOSE i \in files : TRUE
         IN  ExpectedCount(tree[i], rec) + TotalExpected(files \ {i}, rec)

\* The report holds every record the files of `others` are to contribute.
ReportHolds(others) ==
    \A i \in others : \A rec \in ExpectedRecords(tree[i]) :
        Count(report, rec) = TotalExpected(others, rec)

\* The discovered files that cannot be opened.
Unopenable == { i \in Discovered : tree[i].openErr }

\* C1, as claimed: when exactly one discovered regular file cannot be opened
\* and the others are readable and contain rule matches, Scan returns a
\* non-nil error and the report holds the leaks of the other files.
C1_ErrorAndOtherLeaks ==
    ( /\ mainPC = "returned"
      /\ Cardinality(Unopenable) = 1
      /\ \A i \in Discovered \ Unopenable :
            Readable(tree[i]) /\ HasRuleMatches(tree[i]) ) =>
        /\ retErr # NilErr
        /\ ReportHolds(Discovered \ Unopenable)

\* C1, amended: when exactly one discovered regular file cannot be opened,
\* that file is not allow-listed globally, and the others are readable and
\* contain rule matches, Scan returns a non-nil error and the report holds
\* the leaks of the other files.
C1_ErrorAndOtherLeaksUnlessAllowListed ==
    ( /\ mainPC = "returned"
      /\ Cardinality(Unopenable) = 1
      /\ \A i \in Unopenable : ~AllowListed(tree[i])
      /\ \A i \in Discovered \ Unopenable :
            Readable(tree[i]) /\ HasRuleMatches(tree[i]) ) =>
        /\ retErr # NilErr
        /\ ReportHolds(Discovered \ Unopenable)

\* C1's case: Scan has returned the open error of the one unreadable file,
\* and the report holds the records of two readable files.
C1_Witness ==
    /\ mainPC = "returned"
    /\ Cardinality(Unopenable) = 1
    /\ \A i \in Unopenable : ~AllowListed(tree[i]) /\ retErr = OpenErr(tree[i].path)
    /\ Cardinality(Discovered \ Unopenable) = 2
    /\ \A i \in Discovered \ Unopenable :
          /\ Readable(tree[i])
          /\ \E k \in 1..Len(report) : report[k].File = tree[i].path

\* No entry of the tree fails: the walk does not fail and every file that is
\* not allow-listed can be opened and read to its end.
NoIOFailure ==
    /\ ~WalkFails
    /\ \A i \in RegularFiles : AllowListed(tree[i]) \/ Readable(tree[i])

C3_AllowListedFilesAreSkipped ==
    /\ \A i \in RegularFiles :
          AllowListed(tree[i]) =>
              /\ tasks[i].handle = "none"
              /\ \A rec \in Records(leaks) \cup Records(report) \cup stdout :
                    rec.File # tree[i].path
              /\ gErr.path # tree[i].path
              /\ retErr.path # tree[i].path
    /\ (mainPC = "returned" /\ retErr # NilErr) =>
          \/ retErr.op = "walk"
          \/ \E i \in Discovered :
                /\ ~AllowListed(tree[i])
                /\ tree[i].openErr
                /\ retErr = OpenErr(tree[i].path)

\* C3's case: the task of an unreadable file under .git, whose name and
\* content match rules, has returned, and Scan has returned another file's
\* records and no error.
C3_Witness ==
    /\ mainPC = "returned"
    /\ retErr = NilErr
    /\ report # <<>>
    /\ \E i \in RegularFiles :
          /\ tree[i].dotGit
          /\ tree[i].openErr
          /\ HasRuleMatches(tree[i])
          /\ tasks[i].st = "done"

\* The file of the tree with a path.
FileAt(path) == CHOOSE f \in { tree[i] : i \in RegularFiles } : f.path = path

\* The rules with a description.
RulesNamed(desc) == { r \in 1..NRules : Rules[r].Description = desc }

\* A record of a filename/path-only match: no line text, the sentinel line
\* number.
PathShape(rec) == rec.Line = Empty /\ rec.LineNumber = defaultLineNumber

\* A record of a content match: its line number is the 1-based index of a line
\* of its file, the line text is that line's, and the offender is not empty.
ContentShape(rec) ==
    LET f == FileAt(rec.File)
    IN  /\ rec.LineNumber \in 1..Len(f.lines)
        /\ rec.Line = f.lines[rec.LineNumber].text
        /\ rec.Offender # Empty
        /\ \E r \in RulesNamed(rec.Rule) : rec.Offender = f.lines[rec.LineNumber].offender[r]

\* C4: every record of the report (and of the leak queue) has exactly one of
\* the two shapes: that of a filename/path-only match for a rule that matched
\* the file's name, or that of a content match; none has the sentinel line
\* number with a line text.
C4_TwoRecordShapes ==
    \A rec \in Records(report) \cup Records(leaks) :
        /\ \E i \in RegularFiles : tree[i].path = rec.File
        /\ PathShape(rec) # ContentShape(rec)
        /\ PathShape(rec) => \E r \in RulesNamed(rec.Rule) : r \in FileAt(rec.File).leakOnly
        /\ ~(rec.LineNumber = defaultLineNumber /\ rec.Line # Empty)

\* C4's case: the returned report holds a name-only record and a content
\* record of the second line of a file.
C4_Witness ==
    /\ mainPC = "returned"
    /\ \E k \in 1..Len(report) : PathShape(report[k])
    /\ \E k \in 1..Len(report) : ContentShape(report[k]) /\ report[k].LineNumber = 2

\* Scan has returned with every task joined: the walking task and the task of
\* every file sent on paths have returned and leaks is closed.
Joined ==
    /\ mainPC = "returned"
    /\ walker = "done"
    /\ \A i \in Discovered : tasks[i].st = "done"
    /\ \A i \in DOMAIN tasks : tasks[i].st # "run"
    /\ leaksClosed
    /\ leaks = <<>>
    /\ paths = <<>>

\* How far task code position p of file f is from the task's entry: every
\* run of the task moves to a position with a larger index.
PosIndex(f, p) ==
    CASE p.ph = "start" -> 0
      [] p.ph = "rules" -> p.ru
      [] p.ph = "lines" -> (NRules + 1) + p.ln * (NRules + 1) + p.ru
      [] p.ph = "end"   -> (NRules + 1) * (Len(f.lines) + 2) + 1

\* The positions the tasks of entries 1..n have not passed yet.
RECURSIVE StepsLeft(_)
StepsLeft(n) ==
    IF n = 0 THEN 0
    ELSE StepsLeft(n - 1)
            + PosIndex(tree[n], Pos("end", 0, 0)) - PosIndex(tree[n], tasks[n].pos)

\* How far the caller is from its return.
CallerRank ==
    CASE mainPC = "new" -> 4
      [] mainPC = "built" -> 3
      [] mainPC = "range" -> 2
      [] mainPC = "drain" -> 1
      [] OTHER -> 0

\* The work left: a natural number that every step of the scan makes smaller,
\* so no behaviour takes infinitely many steps.
WorkLeft ==
    10 * CallerRank
    + 2 * (Len(tree) + 1 - walkPos) + (IF walker = "done" THEN 0 ELSE 1)
    + Len(paths)
    + 3 * StepsLeft(Len(tree))
    + 2 * Len(leaks)
    + (IF agg = "done" THEN 0 ELSE 1)

\* C5: a constructed scanner's Scan terminates with every task joined, for
\* every tree, also one with more files than paths holds and more records
\* than leaks holds, and whether or not tasks fail: every step makes the work
\* left smaller, and until Scan has returned with every task joined some
\* goroutine can take a step (none of them waits on a channel that nobody
\* will serve).
C5_ScanTerminates ==
    /\ [](WorkLeft \in Nat)
    /\ [][WorkLeft' < WorkLeft]_vars
    /\ [](mainPC \in {"new", "nil"} \/ Joined \/ ENABLED Next)

\* C5's case: Scan has returned with every task joined after more files than
\* paths holds gave more records than leaks holds and a task failed.
C5_Witness ==
    /\ Joined
    /\ Cardinality(Discovered) > PathsCap
    /\ Len(report) > LeaksCap
    /\ retErr # NilErr

\* The errors the tasks of this tree return: the walk's, and the open error of
\* every discovered file that is not allow-listed and cannot be opened.
TaskErrors ==
    { WalkErr(tree[j].path) : j \in { k \in 1..Len(tree) : tree[k].kind = "error" } }
    \cup { OpenErr(tree[i].path) : i \in { k \in Discovered :
                                            ~AllowListed(tree[k]) /\ tree[k].openErr } }

\* C6: Scan returns nil exactly when no task returned an error, and otherwise
\* the error of the task that failed first.
C6_FirstErrorReturned ==
    mainPC = "returned" =>
        /\ Records(failOrder) = TaskErrors
        /\ retErr = NilErr <=> failOrder = <<>>
        /\ failOrder # <<>> => retErr = failOrder[1]

\* C6's case: a matching task failed, the walking task failed after it, and
\* Scan has returned the matching task's error.
C6_Witness ==
    /\ mainPC = "returned"
    /\ Len(failOrder) = 2
    /\ failOrder[1].op = "open"
    /\ failOrder[2].op = "walk"
    /\ retErr = failOrder[1]

----------------------------------------------------------------------------
(* Properties of RedactLeak, checked under SpecRedact *)

\* The places where sub occurs in s (0-based offsets).
Occurrences(s, sub) ==
    { i \in 0..(Len(s) - Len(sub)) : SubSeq(s, i + 1, i + Len(sub)) = sub }

\* The characters of a text.
Chars(s) == { s[i] : i \in 1..Len(s) }

\* C9, as claimed: for every record with a non-empty offender, the redacted
\* record's offender is "REDACTED", its line contains no occurrence of the
\* original offender, and a line that did not contain the offender is
\* unchanged.
C9_NoOccurrenceLeft ==
    (rPC # "start" /\ rIn.Offender # Empty) =>
        /\ rOnce.Offender = REDACTED
        /\ ~Contains(rOnce.Line, rIn.Offender)
        /\ (~Contains(rIn.Line, rIn.Offender) => rOnce.Line = rIn.Line)

\* C9, amended: for every record with a non-empty offender, the redacted
\* record's offender is "REDACTED"; every occurrence of the original offender
\* that is left in the redacted line overlaps an occurrence of the marker
\* (it is made of marker characters, not of the text between the markers), so
\* none is left when the offender shares no character with the marker; and a
\* line that did not contain the offender is unchanged.
C9_OccurrencesOnlyAcrossMarkers ==
    (rPC # "start" /\ rIn.Offender # Empty) =>
        LET off == rIn.Offender
            out == rOnce.Line
        IN  /\ rOnce.Offender = REDACTED
            /\ \A i \in Occurrences(out, off) :
                  \E j \in Occurrences(out, REDACTED) :
                      /\ j < i + Len(off)
                      /\ i < j + Len(REDACTED)
            /\ (Chars(off) \cap Chars(REDACTED) = {} => ~Contains(out, off))
            /\ (~Contains(rIn.Line, off) => out = rIn.Line)

\* C9's case: a line that contains the offender more than once has been
\* redacted and no occurrence is left.
C9_Witness ==
    /\ rPC = "once"
    /\ rIn.Offender # Empty
    /\ Cardinality(Occurrences(rIn.Line, rIn.Offender)) >= 2
    /\ ~Contains(rOnce.Line, rIn.Offender)

\* C10: RedactLeak(RedactLeak(r)) equals RedactLeak(r) in every field, for
\* every record, also with an empty offender or a line that holds the marker.
C10_Idempotent == rPC = "twice" => rTwice = rOnce

\* C10's case: a record with an empty offender whose line already holds the
\* marker has been redacted twice, and the first redaction changed it.
C10_Witness ==
    /\ rPC = "twice"
    /\ rIn.Offender = Empty
    /\ Contains(rIn.Line, REDACTED)
    /\ rOnce # rIn

----------------------------------------------------------------------------
(* Properties of ParentScanner.Scan, checked under SpecParent *)

\* The configuration in force when the iteration of entry i begins: the base
\* configuration, or the override loaded last for a repository that got as far
\* as the load.
RECURSIVE CfgBefore(_)
CfgBefore(i) ==
    IF i = 1 THEN BaseCfg
    ELSE LET c == children[i - 1]
             before == CfgBefore(i - 1)
         IN  IF /\ c.isDir
                /\ c.open = "ok"
                /\ ~RepoAllowed(before, c)
                /\ repoConfigPath
                /\ c.load = "ok"
             THEN OverrideOf(c)
             ELSE before

\* Entry i is an immediate child directory that opens as a repository and is
\* not allow-listed by name.
Eligible(i) ==
    /\ children[i].isDir
    /\ children[i].open = "ok"
    /\ ~RepoAllowed(CfgBefore(i), children[i])

\* The configuration the repository of entry i is scanned with.
CfgFor(i) ==
    IF repoConfigPath /\ children[i].load = "ok" THEN OverrideOf(children[i])
    ELSE CfgBefore(i)

\* The leaks, the commits and the names of the eligible entries among the
\* first n, in listing order.
RECURSIVE EligibleLeaks(_)
EligibleLeaks(n) ==
    IF n = 0 THEN <<>>
    ELSE EligibleLeaks(n - 1)
            \o (IF Eligible(n) THEN RepoLeaks(children[n], CfgFor(n)) ELSE <<>>)

RECURSIVE EligibleCommits(_)
EligibleCommits(n) ==
    IF n = 0 THEN 0
    ELSE EligibleCommits(n - 1) + (IF Eligible(n) THEN children[n].commits ELSE 0)

RECURSIVE EligibleNames(_)
EligibleNames(n) ==
    IF n = 0 THEN <<>>
    ELSE EligibleNames(n - 1) \o (IF Eligible(n) THEN <<children[n].name>> ELSE <<>>)

ScannedNames == [ k \in 1..Len(scanned) |-> scanned[k].name ]

\* C7: when Scan returns without error, the commit count is the sum over the
\* child directories that open as repositories and are not allow-listed, the
\* leaks are their scans' leaks concatenated in listing order, and exactly
\* those directories were passed to the per-repository scanner.
C7_ReportIsSumOfEligibleRepos ==
    (pPC = "returned" /\ pErr = NilErr) =>
        /\ pReport.Commits = EligibleCommits(Len(children))
        /\ pReport.Leaks = EligibleLeaks(Len(children))
        /\ ScannedNames = EligibleNames(Len(children))

\* C7's case: a listing with a plain file, a directory that is no repository,
\* an allow-listed repository and a scanned repository has been scanned
\* without error.
C7_Witness ==
    /\ pPC = "returned"
    /\ pErr = NilErr
    /\ \E i \in 1..Len(children) : ~children[i].isDir
    /\ \E i \in 1..Len(children) : children[i].isDir /\ children[i].open = "notrepo"
    /\ \E i \in 1..Len(children) :
          children[i].open = "ok" /\ RepoAllowed(CfgBefore(i), children[i])
    /\ Len(scanned) >= 1
    /\ pReport.Commits > 0
    /\ pReport.Leaks # <<>>

\* The merge of the reports of the first n recorded scans.
RECURSIVE ScannedReport(_)
ScannedReport(n) ==
    IF n = 0 THEN EmptyReport
    ELSE LET c == CHOOSE c \in { children[i] : i \in 1..Len(children) } :
                      c.name = scanned[n].name
             before == ScannedReport(n - 1)
         IN  [ Leaks |-> before.Leaks \o RepoLeaks(c, scanned[n].cfg),
               Commits |-> before.Commits + c.commits ]

\* The names of the first n entries.
NamesUpTo(n) == { children[i].name : i \in 1..n }

\* The names of the directories among the first n entries, in listing order.
RECURSIVE DirNamesUpTo(_)
DirNamesUpTo(n) ==
    IF n = 0 THEN <<>>
    ELSE DirNamesUpTo(n - 1) \o (IF children[n].isDir THEN <<children[n].name>> ELSE <<>>)

\* C8: a directory that is no repository never ends the scan, which goes on
\* to the entries after it; any other open error and an error of a
\* repository's scan are returned at once: they are the first such error of
\* the listing, every directory up to the failing one and none after it has
\* been opened, none after it configured or scanned, and the report returned
\* with the error is what the repositories scanned before the failure gave.
C8_FirstFatalErrorReturned ==
    /\ pErr # NilErr => pPC = "returned"
    /\ \A i \in 1..Len(children) :
          (children[i].isDir /\ children[i].open = "notrepo") =>
              pErr.path # children[i].name
    /\ (pPC = "returned" /\ pErr = NilErr) => opened = DirNamesUpTo(Len(children))
    /\ (pPC = "returned" /\ pErr # NilErr /\ pErr # ReadDirErr) =>
          LET c == children[pIdx]
          IN  /\ \/ pErr = PlainOpenErr(c.name) /\ c.open = "err"
                 \/ pErr = RepoScanErr(c.name) /\ c.open = "ok" /\ c.scanErr
              /\ \A j \in 1..(pIdx - 1) :
                    /\ ~(children[j].isDir /\ children[j].open = "err")
                    /\ ~(children[j].scanErr
                            /\ \E k \in 1..Len(scanned) : scanned[k].name = children[j].name)
              /\ opened = DirNamesUpTo(pIdx)
              /\ { loaded[k] : k \in 1..Len(loaded) } \subseteq NamesUpTo(pIdx)
              /\ { scanned[k].name : k \in 1..Len(scanned) } \subseteq NamesUpTo(pIdx)
              /\ pReport = ScannedReport(IF pErr = RepoScanErr(c.name)
                                         THEN Len(scanned) - 1 ELSE Len(scanned))
    /\ (pPC = "returned" /\ pErr = ReadDirErr) =>
          pReport = EmptyReport /\ opened = <<>> /\ scanned = <<>>

\* C8's case: after a directory that is no repository was skipped and a
\* repository was scanned, a repository's scan failed with entries left in the
\* listing.
C8_Witness ==
    /\ pPC = "returned"
    /\ pErr.op = "reposcan"
    /\ pIdx < Len(children)
    /\ \E i \in 1..(pIdx - 1) : children[i].isDir /\ children[i].open = "notrepo"
    /\ pReport.Leaks # <<>>

----------------------------------------------------------------------------
(* Properties of the channels and tasks of NoGitScanner.Scan, under Spec *)

\* The matching tasks that have been started and have not returned.
Alive == { i \in DOMAIN tasks : tasks[i].st = "run" }

\* C11: leaks is closed once, by the closing goroutine, which then ends; at
\* that moment the walking task and every matching task have returned and no
\* path is left to spawn a task for; once leaks is closed no task is started
\* or takes a step and nothing is pushed onto leaks; no task is started once
\* the closing goroutine has begun its g.Wait(); Scan returns with leaks
\* closed.
C11_LeaksClosedOnceAfterAllTasks ==
    /\ [][(leaksClosed' # leaksClosed) =>
              /\ ~leaksClosed
              /\ agg = "waiting" /\ agg' = "done"
              /\ walker = "done" /\ paths = <<>> /\ Alive = {}]_vars
    /\ [][agg = "done" => agg' = "done"]_vars
    /\ [][leaksClosed =>
              /\ tasks' = tasks
              /\ leaks' = leaks \/ (leaks # <<>> /\ leaks' = Tail(leaks))]_vars
    /\ [][agg # "idle" =>
              \A i \in DOMAIN tasks : tasks[i].st = "idle" => tasks'[i].st = "idle"]_vars
    /\ [](mainPC = "returned" => leaksClosed /\ agg = "done")

\* C11's case: leaks has been closed with records still queued, after three
\* matching tasks returned, one of them with an error.
C11_Witness ==
    /\ leaksClosed
    /\ leaks # <<>>
    /\ Cardinality({ i \in DOMAIN tasks : tasks[i].st = "done" }) = 3
    /\ gErr.op = "open"

\* The (line, rule) pairs of a file whose records its task gets to push: the
\* reportable pairs of the lines that are read, when the file can be opened.
EmittedPairs(f) ==
    { lr \in ReportablePairs(f) : ~f.openErr /\ lr[1] <= f.readable }

\* The records the task of file f pushes before it returns.
EmittedRecords(f) ==
    IF AllowListed(f) THEN {}
    ELSE { PathRecord(f, r) : r \in f.leakOnly }
         \cup { LineRecord(f, lr[1], lr[2]) : lr \in EmittedPairs(f) }

\* How many records equal to rec the task of file f pushes.
EmittedCount(f, rec) ==
    IF AllowListed(f) THEN 0
    ELSE Cardinality({ r \in f.leakOnly : PathRecord(f, r) = rec })
         + Cardinality({ lr \in EmittedPairs(f) : LineRecord(f, lr[1], lr[2]) = rec })

\* The sum of EmittedCount over a set of files.
RECURSIVE TotalEmitted(_, _)
TotalEmitted(files, rec) ==
    IF files = {} THEN 0
    ELSE LET i == CHOOSE i \in files : TRUE
         IN  EmittedCount(tree[i], rec) + TotalEmitted(files \ {i}, rec)

\* The report is, as a multiset, what the tasks of `files` push.
ReportIsEmittedBy(files) ==
    \A rec \in Records(report) \cup UNION { EmittedRecords(tree[i]) : i \in files } :
        Count(report, rec) = TotalEmitted(files, rec)

\* C12: paths is closed once, by the walking task as it returns, whether the
\* walk completed or failed; nothing is pushed onto paths once it is closed;
\* a file behind the entry the walk failed on is never pushed and never gets
\* a task; and when the walk failed, Scan returns the walk's error, or the
\* error of a matching task that was recorded before it, together with the
\* records of the files pushed before the walk failed.
C12_PathsClosedOnceAndWalkErrorReturned ==
    /\ [][(pathsClosed' # pathsClosed) =>
              ~pathsClosed /\ walker = "run" /\ walker' = "done"]_vars
    /\ [][walker = "done" => walker' = "done" /\ walkPos' = walkPos]_vars
    /\ [][pathsClosed =>
              paths' = paths \/ (paths # <<>> /\ paths' = Tail(paths))]_vars
    /\ [](pathsClosed <=> walker = "done")
    /\ [](\A i \in RegularFiles \ Discovered :
              tasks[i].st = "idle" /\ i \notin Records(paths))
    /\ []((mainPC = "returned" /\ WalkFails) =>
              /\ \E j \in 1..Len(tree) :
                    /\ tree[j].kind = "error"
                    /\ WalkErr(tree[j].path) \in Records(failOrder)
                    /\ \/ retErr = WalkErr(tree[j].path)
                       \/ retErr.op = "open" /\ retErr = failOrder[1]
              /\ ReportIsEmittedBy(Discovered))

\* C12's case: the walk failed with a matching file still ahead of it, and
\* Scan has returned the walk's error and the records of a file pushed before.
C12_Witness ==
    /\ mainPC = "returned"
    /\ retErr.op = "walk"
    /\ report # <<>>
    /\ \E i \in RegularFiles \ Discovered : HasRuleMatches(tree[i]) /\ ~AllowListed(tree[i])

\* The discovered files whose task meets an I/O failure: they are not
\* allow-listed and cannot be opened or cannot be read to their end.
Failing == { i \in Discovered : ~AllowListed(tree[i]) /\ ~Readable(tree[i]) }

\* C13: whatever failed and whenever, when Scan returns every regular file
\* the walk reached has had its task started and run to its return, also the
\* tasks started after the group had recorded an error, and the report holds
\* every reportable record of every file other than the failing ones.
C13_NoCancellation ==
    mainPC = "returned" =>
        /\ \A i \in Discovered : tasks[i].st = "done"
        /\ \A i \in Discovered \ Failing :
              AllowListed(tree[i]) \/ tasks[i].handle = "closed"
        /\ ReportHolds(Discovered \ Failing)

\* C13's case: a matching task failed on os.Open, the task of a later file
\* was started after that, read its file to the end, and Scan has returned
\* with that file's content records.
C13_Witness ==
    /\ mainPC = "returned"
    /\ failOrder # <<>>
    /\ failOrder[1].op = "open"
    /\ \E i \in Discovered \ Failing :
          /\ tasks[i].late
          /\ tasks[i].handle = "closed"
          /\ \E k \in 1..Len(report) :
                report[k].File = tree[i].path /\ report[k].LineNumber >= 1

\* The discovered files whose task fails: os.Open returns an error.
FailsOnOpen == { i \in Discovered : ~AllowListed(tree[i]) /\ tree[i].openErr }

\* The records of the report that are about file f.
ReportOf(f) == SelectSeq(report, LAMBDA rec : rec.File = f.path)

\* C14, as claimed: the returned report holds no record whose file is a file
\* the matching task of which failed.
C14_NoRecordOfFailingFile ==
    mainPC = "returned" =>
        \A i \in FailsOnOpen : ReportOf(tree[i]) = <<>>

\* C14, amended: the returned report holds, for a file the matching task of
\* which failed on os.Open, exactly the filename/path-only records pushed
\* before the open, one for every rule that matches the file by name, and no
\* content record.
C14_PathRecordsOfFailingFileKept ==
    mainPC = "returned" =>
        \A i \in FailsOnOpen :
            /\ \A k \in 1..Len(ReportOf(tree[i])) : PathShape(ReportOf(tree[i])[k])
            /\ Len(ReportOf(tree[i])) = Cardinality(tree[i].leakOnly)
            /\ \A r \in tree[i].leakOnly : Count(report, PathRecord(tree[i], r)) = 1

\* C14's case: Scan has returned the open error of a file whose name matches
\* a rule and whose content would match another, with the file's
\* filename/path-only record in the report.
C14_Witness ==
    /\ mainPC = "returned"
    /\ \E i \in FailsOnOpen :
          /\ retErr = OpenErr(tree[i].path)
          /\ tree[i].leakOnly # {}
          /\ \E ln \in 1..Len(tree[i].lines), r \in 1..NRules :
                tree[i].lines[ln].offender[r] # Empty
          /\ ReportOf(tree[i]) # <<>>

\* The discovered files that are opened and then fail to be read to their end.
FailsOnRead ==
    { i \in Discovered :
        ~AllowListed(tree[i]) /\ ~tree[i].openErr /\ tree[i].readable < Len(tree[i].lines) }

\* C15, as claimed: when reading a file that was opened fails part-way, Scan
\* returns an error.
C15_ReadFailureIsReturned ==
    (mainPC = "returned" /\ FailsOnRead # {}) => retErr # NilErr

\* The place in ngs.cfg.Rules of the rule a record names.
RuleIndex(rec) == CHOOSE r \in 1..NRules : Rules[r].Description = rec.Rule

\* The records of one file stand in a sequence in the order its task makes
\* them: filename/path-only records before content records, content records
\* by line number and, on one line, by the place of their rule.
InEmissionOrder(seq) ==
    \A k, l \in 1..Len(seq) :
        (k < l /\ seq[k].File = seq[l].File) =>
            /\ PathShape(seq[l]) => PathShape(seq[k])
            /\ (~PathShape(seq[k]) /\ ~PathShape(seq[l])) =>
                  \/ seq[k].LineNumber < seq[l].LineNumber
                  \/ /\ seq[k].LineNumber = seq[l].LineNumber
                     /\ RuleIndex(seq[k]) < RuleIndex(seq[l])

\* C16: at every moment the report, followed by the records still in the
\* leak queue, holds the records of any one file in emission order.
C16_PerFileEmissionOrder == InEmissionOrder(report \o leaks)

\* C16's case: the returned report holds, of one file, a filename/path-only
\* record, two records of line 1 and one of line 2, with a record of another
\* file between them.
C16_Witness ==
    /\ mainPC = "returned"
    /\ \E i \in RegularFiles :
          LET own == ReportOf(tree[i])
          IN  /\ Len(own) = 4
              /\ PathShape(own[1])
              /\ own[2].LineNumber = 1 /\ own[3].LineNumber = 1
              /\ own[4].LineNumber = 2
              /\ \E k, m, l \in 1..Len(report) :
                    /\ k < m /\ m < l
                    /\ report[k].File = tree[i].path
                    /\ report[l].File = tree[i].path
                    /\ report[m].File # tree[i].path

----------------------------------------------------------------------------
(* The configuration in force in ParentScanner.Scan, under SpecParent *)

\* The place in the listing of the entry with a name.
IndexOf(name) == CHOOSE i \in 1..Len(children) : children[i].name = name

\* The override loaded last among the loads of a sequence of repository
\* names, the base configuration when none of them succeeded.
RECURSIVE LastOverride(_)
LastOverride(names) ==
    IF names = <<>> THEN BaseCfg
    ELSE LET c == children[IndexOf(names[Len(names)])]
         IN  IF c.load = "ok" THEN OverrideOf(c)
             ELSE LastOverride(SubSeq(names, 1, Len(names) - 1))

\* The loads attempted in the iterations before that of entry i, and those
\* up to and including it.
LoadedBefore(i) == SelectSeq(loaded, LAMBDA n : IndexOf(n) < i)
LoadedUpTo(i) == SelectSeq(loaded, LAMBDA n : IndexOf(n) <= i)

\* The repositories whose iteration has got past the allow check and the
\* load that follows it.
PastAllowCheck ==
    { i \in 1..Len(children) :
        /\ children[i].isDir /\ children[i].open = "ok"
        /\ \/ i < pIdx
           \/ i = pIdx /\ pPC = "scan"
           \/ i = pIdx /\ pPC = "returned" /\ pErr.op = "reposcan" }

\* C17: with a per-repository override path set, the configuration in force
\* is at every moment the override loaded last with success, or the base
\* configuration when no load has succeeded yet (a failed load changes
\* nothing); every repository is scanned with the override loaded last up to
\* and including its own load; and a repository is skipped by name exactly
\* when the override loaded last before its own iteration allow-lists it.
C17_ActiveConfigIsLastLoadedOverride ==
    repoConfigPath =>
        /\ cfg = LastOverride(loaded)
        /\ \A k \in 1..Len(scanned) :
              scanned[k].cfg = LastOverride(LoadedUpTo(IndexOf(scanned[k].name)))
        /\ \A i \in PastAllowCheck :
              (children[i].name \in Records(loaded))
                  <=> ~RepoAllowed(LastOverride(LoadedBefore(i)), children[i])

\* C17's case: Scan has returned after a repository whose own load failed was
\* scanned with the override of an earlier repository, a repository the base
\* configuration does not allow-list was skipped because that override
\* allow-lists it, and the override is still in force.
C17_Witness ==
    /\ pPC = "returned"
    /\ repoConfigPath
    /\ cfg # BaseCfg
    /\ \E k \in 1..Len(scanned) :
          /\ children[IndexOf(scanned[k].name)].load = "fail"
          /\ scanned[k].cfg # BaseCfg
    /\ \E i \in PastAllowCheck :
          /\ ~children[i].baseAllowed
          /\ children[i].name \notin Records(loaded)

----------------------------------------------------------------------------
(* File handles of NoGitScanner.Scan, under Spec *)

\* The files a handle of which is open.
OpenHandles == { i \in DOMAIN tasks : tasks[i].handle = "open" }

\* C18: a file is sent on paths at most once and only while no task has been
\* started for it, so one task at most opens it; a handle is open only while
\* its task is alive; a task that has returned has closed the handle it
\* opened, and holds none when its file is allow-listed or failed to open;
\* when Scan returns no handle is open.
C18_HandlesOwnedAndClosed ==
    /\ \A i \in DOMAIN tasks :
          /\ Count(paths, i) <= 1
          /\ Count(paths, i) = 1 => tasks[i].st = "idle"
          /\ tasks[i].st = "idle" => tasks[i].handle = "none"
          /\ tasks[i].st = "done" =>
                tasks[i].handle =
                    IF AllowListed(tree[i]) THEN "none"
                    ELSE IF tree[i].openErr THEN "failed"
                    ELSE "closed"
    /\ OpenHandles \subseteq Alive
    /\ mainPC = "returned" => OpenHandles = {}

\* C18's case: Scan has returned an error after one task closed the file it
\* had read, one failed to open its file and one skipped an allow-listed
\* file.
C18_Witness ==
    /\ mainPC = "returned"
    /\ retErr # NilErr
    /\ \E i \in DOMAIN tasks :
          /\ tasks[i].handle = "closed"
          /\ ReportOf(tree[i]) # <<>>
    /\ \E i \in DOMAIN tasks : tasks[i].st = "done" /\ tasks[i].handle = "failed"
    /\ \E i \in DOMAIN tasks : tasks[i].st = "done" /\ tasks[i].handle = "none"

----------------------------------------------------------------------------
(* Bounds on the channels of NoGitScanner.Scan, under Spec *)

\* The matching tasks that are blocked in leaks <- leak: their next step is a
\* send and leaks is full.
BlockedOnLeaks ==
    { i \in Alive : RunTask(tree[i], tasks[i].pos).send /\ Len(leaks) = LeaksCap }

\* C19: paths never holds more paths and leaks never more records than its
\* capacity, and the range loop starts a task for a queued path whatever the
\* number of tasks alive. (That all tasks of a tree can be alive at once is
\* shown by the state C19_Witness describes.)
C19_ChannelsBoundedTasksNot ==
    /\ Len(paths) <= PathsCap
    /\ Len(leaks) <= LeaksCap
    /\ (mainPC = "range" /\ paths # <<>>) => ENABLED Spawn

\* C19's case: a tree of more regular files than paths holds, all of whose
\* matching tasks are alive at the same time, blocked on the full leak queue.
C19_Witness ==
    /\ Cardinality(RegularFiles) = MaxFiles
    /\ MaxFiles > PathsCap
    /\ Alive = RegularFiles
    /\ BlockedOnLeaks = Alive

----------------------------------------------------------------------------
(* Logging and the report of NoGitScanner.Scan, under Spec *)

\* C20: whatever opts.Verbose and opts.Redact are, every record queued or
\* reported is a record as its task made it, with the offender and the line
\* as found in the file, and the report Scan returns is, as a multiset, what
\* the tasks of the files the walk reached push, which the tree alone
\* determines.
C20_ReportIndependentOfLogging ==
    /\ Records(report) \cup Records(leaks)
            \subseteq UNION { EmittedRecords(tree[i]) : i \in Discovered }
    /\ mainPC = "returned" => ReportIsEmittedBy(Discovered)

\* C20's case: with logging and redaction on, Scan has returned content
\* records that carry their offender, while what was printed for them carries
\* the marker in its place.
C20_Witness ==
    /\ mainPC = "returned"
    /\ opts.Verbose /\ opts.Redact
    /\ \E k \in 1..Len(report) :
          /\ report[k].LineNumber >= 1
          /\ report[k].Offender # REDACTED
          /\ Contains(report[k].Line, report[k].Offender)
          /\ RedactLeak(report[k]) \in stdout
          /\ RedactLeak(report[k]).Offender = REDACTED
          /\ Contains(RedactLeak(report[k]).Line, REDACTED)
          /\ report[k] \notin stdout
====
